---- MODULE Spec2Model ----
(***************************************************************************)
(* Model of orca/dataset_readers/sharc_net.py (ShARCNetDatasetReader).     *)
(*                                                                         *)
(* Four operations are modelled, each with its own specification:          *)
(*   SpecRule : modify_rule (with find_from_last, split_last_sentence and  *)
(*              the regular expression), on strings modelled as sequences  *)
(*              of one-character strings;                                  *)
(*   SpecTok  : _tokens_to_ids on token sequences;                         *)
(*   SpecInst : text_to_instance, on texts modelled as sequences of words  *)
(*              (the tokenizers are external collaborators);               *)
(*   SpecRead : the record loop of _read, which calls text_to_instance.    *)
(***************************************************************************)
EXTENDS Integers, Sequences, FiniteSets, TLC

VARIABLES
    rule,          \* modify_rule: the argument `rule`
    rule_pc,       \* modify_rule: "idle" | "call" | "done"
    rule_out,      \* modify_rule: the returned string
    mr,            \* modify_rule: its locals (match groups, pretext, condition, ...)
    tokens,        \* _tokens_to_ids: the argument `tokens`
    tok_pc,        \* _tokens_to_ids: "idle" | "call" | "done"
    out,           \* _tokens_to_ids: the returned list `out`
    ti_args,       \* text_to_instance: its arguments
    ti_pc,         \* text_to_instance: "idle" | "call" | "done"
    fields_dict,   \* text_to_instance: the fields of the returned Instance
    ids_arg,       \* text_to_instance: the list it handed to _tokens_to_ids
    dataset,       \* _read: the list loaded from the file
    read_pc,       \* _read: "idle" | "open" | "loop" | "done" | "raised"
    idx,           \* _read: number of records of `dataset` already consumed
    answer,        \* _read: the local variable `answer`
    evidence,      \* _read: the local variable `evidence`
    yielded        \* _read: the instances yielded so far, in order

vars == << rule, rule_pc, rule_out, mr, tokens, tok_pc, out, ti_args, ti_pc,
           fields_dict, ids_arg, dataset, read_pc, idx, answer, evidence, yielded >>

ruleVars == << rule, rule_pc, rule_out, mr >>
tokVars  == << tokens, tok_pc, out >>
instVars == << ti_args, ti_pc, fields_dict, ids_arg >>
readVars == << dataset, read_pc, idx, answer, evidence, yielded >>

(***************************************************************************)
(* Bounds of the model.                                                    *)
(***************************************************************************)
MaxBullets  == 2   \* bullet items in a generated rule text
MaxPreLines == 2   \* lines before the label line in a generated rule text
MaxTokens   == 3   \* tokens in an argument of _tokens_to_ids
MaxSource   == 2   \* words of a rule text given to text_to_instance
MaxTarget   == 2   \* words of an answer given to text_to_instance
MaxRecords  == 4   \* records in a dataset read by _read

(***************************************************************************)
(* Strings as sequences of one-character strings.                          *)
(***************************************************************************)
NL == "\n"

RECURSIVE Concat(_)
Concat(ss) == IF ss = << >> THEN << >> ELSE Head(ss) \o Concat(Tail(ss))

\* Python slices s[:n] and s[n:] for 0 <= n.
SliceTo(s, n)   == SubSeq(s, 1, IF n < Len(s) THEN n ELSE Len(s))
SliceFrom(s, n) == IF n >= Len(s) THEN << >> ELSE SubSeq(s, n + 1, Len(s))

\* s[::-1]
Reversed(s) == [i \in 1..Len(s) |-> s[Len(s) + 1 - i]]

\* str.find: the lowest 0-based index where sub occurs in s, or -1.
StrFind(s, sub) ==
    LET hits == { i \in 0..(Len(s) - Len(sub)) : SubSeq(s, i + 1, i + Len(sub)) = sub }
    IN  IF hits = {} THEN -1 ELSE CHOOSE i \in hits : \A j \in hits : i <= j

\* `sub in s`
StrIn(sub, s) == StrFind(s, sub) # -1

\* str.split(sep) for a one-character separator.
RECURSIVE StrSplit(_, _)
StrSplit(s, sep) ==
    LET i == StrFind(s, << sep >>)
    IN  IF i = -1 THEN << s >>
        ELSE << SliceTo(s, i) >> \o StrSplit(SliceFrom(s, i + 1), sep)

(***************************************************************************)
(* The regular expression of modify_rule, compiled with re.MULTILINE:      *)
(*     G1 NLS ^ G2 ":" NL NL G3      (line 179), where                     *)
(*     G1  = lazy run of characters other than newline (group 1),          *)
(*     NLS = greedy run of newlines,                                       *)
(*     G2  = greedy non-empty run of characters other than newline,        *)
(*     G3  = one or more times, greedily: ^ "* " followed by a greedy      *)
(*           non-empty run of characters other than newline and a greedy   *)
(*           run of newlines.                                              *)
(* Positions are 1-based; position p lies before character s[p], and       *)
(* Len(s) + 1 is the end of the string.  `.` matches any character but a   *)
(* newline, `^` matches at the start of the string and after a newline.    *)
(***************************************************************************)
IsLineStart(s, p) == p = 1 \/ s[p - 1] = NL

\* Length of the longest run, starting at p, of newlines (nl = TRUE) or of
\* characters other than a newline (nl = FALSE).
RunOf(s, p, nl) ==
    LET stops == { q \in p..(Len(s) + 1) : q = Len(s) + 1 \/ ((s[q] = NL) # nl) }
    IN  (CHOOSE q \in stops : \A r \in stops : q <= r) - p

\* One iteration of G3 at p: the position after it, or 0 when it does not
\* match.  Both runs are greedy and nothing follows the group in the
\* pattern, so the engine never gives back what they took.
BulletIterEnd(s, p) ==
    IF /\ p + 2 <= Len(s)
       /\ IsLineStart(s, p)
       /\ s[p] = "*"
       /\ s[p + 1] = " "
       /\ s[p + 2] # NL
    THEN LET e == p + 2 + RunOf(s, p + 2, FALSE)
         IN  e + RunOf(s, e, TRUE)
    ELSE 0

\* G3 at p, whose first iteration matches: the position after the last
\* iteration the greedy repetition can make.
RECURSIVE BulletsEnd(_, _)
BulletsEnd(s, p) ==
    LET e == BulletIterEnd(s, p)
    IN  IF e = 0 THEN p ELSE BulletsEnd(s, e)

\* The ways the pattern matches when the attempt starts at st: k characters
\* for G1, j newlines for NLS, m characters for G2.
MatchChoices(s, st) ==
    UNION { UNION { { << k, j, m >> : m \in
                        { n \in 1..RunOf(s, st + k + j, FALSE) :
                            LET q == st + k + j + n
                            IN  /\ IsLineStart(s, st + k + j)
                                /\ q + 2 <= Len(s)
                                /\ s[q] = ":"
                                /\ s[q + 1] = NL
                                /\ s[q + 2] = NL
                                /\ BulletIterEnd(s, q + 3) # 0 } }
                    : j \in 0..RunOf(s, st + k, TRUE) }
            : k \in 0..RunOf(s, st, FALSE) }

\* The choice a backtracking engine finds first: G1 is lazy, NLS and G2 are
\* greedy.
FirstChoice(cs) ==
    LET k  == CHOOSE x \in { c[1] : c \in cs } : \A c \in cs : x <= c[1]
        ck == { c \in cs : c[1] = k }
        j  == CHOOSE x \in { c[2] : c \in ck } : \A c \in ck : x >= c[2]
        cj == { c \in ck : c[2] = j }
        m  == CHOOSE x \in { c[3] : c \in cj } : \A c \in cj : x >= c[3]
    IN  << k, j, m >>

NoMatch == [found |-> FALSE, start |-> 0, end |-> 0, label |-> 0,
            group1 |-> << >>, group2 |-> << >>, group3 |-> << >>]

\* The match of an attempt that starts at st and takes the choice c.
MatchOf(s, st, c) ==
    [found |-> TRUE, start |-> st,
     end |-> BulletsEnd(s, st + c[1] + c[2] + c[3] + 3),
     label |-> st + c[1] + c[2],
     group1 |-> SubSeq(s, st, st + c[1] - 1),
     group2 |-> SubSeq(s, st + c[1] + c[2], st + c[1] + c[2] + c[3] - 1),
     group3 |-> SubSeq(s, st + c[1] + c[2] + c[3] + 3,
                       BulletsEnd(s, st + c[1] + c[2] + c[3] + 3) - 1)]

\* The least element of a non-empty set of numbers.
Least(S) == CHOOSE x \in S : \A y \in S : x <= y

MatchFrom(s, st) == MatchOf(s, st, FirstChoice(MatchChoices(s, st)))

SearchFrom(s, starts) == IF starts = {} THEN NoMatch ELSE MatchFrom(s, Least(starts))

\* pattern.search(rule): the match at the leftmost position where an attempt
\* succeeds.  start..end-1 is the matched region, label the position where
\* group 2 starts.
PatternSearch(s) ==
    SearchFrom(s, { st \in 1..(Len(s) + 1) : MatchChoices(s, st) # {} })

(***************************************************************************)
(* find_from_last, split_last_sentence, modify_rule.                       *)
(***************************************************************************)
find_from_last(string, substring) ==
    LET index_back == StrFind(Reversed(string), substring)
    IN  IF index_back = -1 THEN -1 ELSE Len(string) - index_back - 1

\* Mutant of split_last_sentence: the second part starts right after the
\* period, at index + 1.
split_last_sentence_keep_separator(sentences) ==
    LET index == find_from_last(sentences, << "." >>)
    IN  IF index = -1 THEN << << >>, sentences >>
        ELSE << SliceTo(sentences, index + 1), SliceFrom(sentences, index + 1) >>

\* Returns the pair << sentences[:index + 1], sentences[index + 2:] >>.
split_last_sentence(sentences) ==
    LET index == find_from_last(sentences, << "." >>)
    IN  IF index = -1 THEN << << >>, sentences >>
        ELSE << SliceTo(sentences, index + 1), SliceFrom(sentences, index + 2) >>

\* The list literal of line 187; '#,' 'both' is one string, '#,both'.
exclude_words ==
    << << "#", ",", "b", "o", "t", "h" >>,
       << "f", "o", "l", "l", "o", "w", "i", "n", "g" >>,
       << "e", "i", "t", "h", "e", "r" >>,
       << "i", "n", "c", "l", "u", "d", "i", "n", "g" >>,
       << "i", "n", "c", "l", "u", "d", "e" >> >>

\* [condition + ' ' + a[2:] + '.\n' for a in bullets.split('\n')]
BulletsList(condition, bullets) ==
    LET parts == StrSplit(bullets, NL)
    IN  [i \in 1..Len(parts) |->
            condition \o << " " >> \o SliceFrom(parts[i], 2) \o << ".", NL >>]

\* The locals of a call of modify_rule that found no match.
Unmatched(r) ==
    [ret |-> r, match |-> NoMatch, rewritten |-> FALSE,
     pretext |-> << >>, pretext2 |-> << >>, condition |-> << >>,
     bullets_list |-> << >>]

\* Lines 185-195: pretext += '\n' + pretext2, the exclusion check and the
\* rewriting, given the match and the two parts of the label line.
Distribute(r, match, pretext2, condition) ==
    LET pre   == match.group1 \o << NL >> \o pretext2
        blist == BulletsList(condition, match.group3)
    IN  IF \E i \in 1..Len(exclude_words) : StrIn(exclude_words[i], condition)
        THEN [ret |-> r, match |-> match, rewritten |-> FALSE,
              pretext |-> pre, pretext2 |-> pretext2, condition |-> condition,
              bullets_list |-> << >>]
        ELSE [ret |-> pre \o << NL >> \o Concat(blist), match |-> match,
              rewritten |-> TRUE,
              pretext |-> pre, pretext2 |-> pretext2, condition |-> condition,
              bullets_list |-> blist]

\* Line 184: pretext2, condition = self.split_last_sentence(condition)
SplitLabel(r, match, split) == Distribute(r, match, split[1], split[2])

\* Lines 181-195, given the result of pattern.search(rule).
Rewrite(r, match) ==
    IF ~match.found THEN Unmatched(r)
    ELSE SplitLabel(r, match, split_last_sentence(match.group2))

\* modify_rule(rule): the returned string `ret` and the locals of the call.
modify_rule(r) == Rewrite(r, PatternSearch(r))

(***************************************************************************)
(* Rule texts given to modify_rule: up to MaxPreLines lines, a label line  *)
(* (an optional first sentence and a clause), a colon, one or two          *)
(* newlines, up to MaxBullets bullet lines separated by one or two         *)
(* newlines, and a tail.                                                   *)
(***************************************************************************)
Letters == << "G", "H", "I", "J", "K" >>

PreText(n, blank) ==
    Concat([i \in 1..n |-> << Letters[i], ".", NL >>])
        \o (IF blank THEN << NL >> ELSE << >>)

PreTexts == { PreText(n, b) : n \in 0..MaxPreLines, b \in BOOLEAN }

LabelHeads ==
    { << >>, << "P", ".", " " >>, << "P", "." >>,
      << "P", ".", " ", "Q", ".", " " >> }

Clauses ==
    { << >>, << "i", "f" >>,
      << "b", "o", "t", "h" >>,
      << "B", "o", "t", "h" >>,
      << "#", ",", "b", "o", "t", "h" >>,
      << "f", "o", "l", "l", "o", "w", "i", "n", "g" >>,
      << "e", "i", "t", "h", "e", "r" >>,
      << "i", "n", "c", "l", "u", "d", "i", "n", "g" >>,
      << "i", "n", "c", "l", "u", "d", "e" >> }

Labels == { h \o c : h \in LabelHeads, c \in Clauses }

Gaps == { << ":", NL, NL >>, << ":", NL >> }

ItemLetters == << "a", "b", "c", "d" >>

\* n bullet items; the i-th item is the i-th letter.
ItemSeqs == { [i \in 1..n |-> << ItemLetters[i] >>] : n \in 1..MaxBullets }

BulletSeps == { << NL >>, << NL, NL >> }

BulletBlock(items, sep) ==
    Concat([i \in 1..Len(items) |->
              (IF i = 1 THEN << >> ELSE sep) \o << "*", " " >> \o items[i]])

BulletBlocks == { BulletBlock(items, sep) : items \in ItemSeqs, sep \in BulletSeps }

Tails == { << >>, << NL >>, << NL, "Z", "." >>, << NL, NL, "Z", "." >> }

RuleInputs ==
    { pre \o lab \o gap \o blk \o tail :
        pre \in PreTexts, lab \in Labels, gap \in Gaps,
        blk \in BulletBlocks, tail \in Tails }

(***************************************************************************)
(* SpecRule: one call of modify_rule on each rule text.                    *)
(***************************************************************************)
NoLocals == Unmatched(<< >>)

RuleIdle == rule = << >> /\ rule_pc = "idle" /\ rule_out = << >> /\ mr = NoLocals

ModifyRule ==
    /\ rule_pc = "call"
    /\ LET res == modify_rule(rule)
       IN  /\ rule_out' = res.ret
           /\ mr' = res
    /\ rule_pc' = "done"
    /\ UNCHANGED << rule, tokVars, instVars, readVars >>

(***************************************************************************)
(* Tokens and _tokens_to_ids.  A Token is a record with its text;          *)
(* str.lower is tabulated over the words the model uses.                   *)
(***************************************************************************)
Token(w) == [text |-> w]

LowerTable ==
    [w \in { "A", "B", "Yes", "No", "Irrelevant", "More",
             "@@RS@@", "@@RE@@", "@@QS@@", "@@SS@@", "@@HS@@", "@@HE@@" } |->
        CASE w = "A" -> "a"
          [] w = "B" -> "b"
          [] w = "Yes" -> "yes"
          [] w = "No" -> "no"
          [] w = "Irrelevant" -> "irrelevant"
          [] w = "More" -> "more"
          [] w = "@@RS@@" -> "@@rs@@"
          [] w = "@@RE@@" -> "@@re@@"
          [] w = "@@QS@@" -> "@@qs@@"
          [] w = "@@SS@@" -> "@@ss@@"
          [] w = "@@HS@@" -> "@@hs@@"
          [] w = "@@HE@@" -> "@@he@@"]

Lower(w) == IF w \in DOMAIN LowerTable THEN LowerTable[w] ELSE w

\* Mutant of TokenKey: the key keeps the letter case.
TokenKeyCaseSensitive(token) == token.text

\* The dict key of a token: token.text.lower()
TokenKey(token) == Lower(token.text)

\* ids.setdefault(key, default) on a dict held as a set of << key, value >>
\* pairs: the dict afterwards, and the value returned.
SetDefault(ids, key, default) ==
    IF \E e \in ids : e[1] = key
    THEN [dict |-> ids, value |-> (CHOOSE e \in ids : e[1] = key)[2]]
    ELSE [dict |-> ids \cup { << key, default >> }, value |-> default]

\* The loop of _tokens_to_ids from token i on, with the dict `ids` and the
\* list `acc` built so far.
RECURSIVE TokensToIdsLoop(_, _, _, _)
TokensToIdsLoop(toks, i, ids, acc) ==
    IF i > Len(toks) THEN acc
    ELSE LET r == SetDefault(ids, TokenKey(toks[i]), Cardinality(ids))
         IN  TokensToIdsLoop(toks, i + 1, r.dict, Append(acc, r.value))

tokens_to_ids(toks) == TokensToIdsLoop(toks, 1, {}, << >>)

(***************************************************************************)
(* SpecTok: one call of _tokens_to_ids on each token sequence.             *)
(***************************************************************************)
TokWords == { "a", "A", "b", "B" }

TokenInputs == UNION { [1..n -> { Token(w) : w \in TokWords }] : n \in 0..MaxTokens }

TokIdle == tokens = << >> /\ tok_pc = "idle" /\ out = << >>

TokensToIds ==
    /\ tok_pc = "call"
    /\ out' = tokens_to_ids(tokens)
    /\ tok_pc' = "done"
    /\ UNCHANGED << tokens, ruleVars, instVars, readVars >>

(***************************************************************************)
(* text_to_instance.  A text is modelled as the sequence of its words and  *)
(* string concatenation as concatenation of word sequences; the tokenizers *)
(* (external collaborators) turn each word into one Token.  An optional    *)
(* argument is << >> for None and << v >> for the value v.                 *)
(***************************************************************************)
START_SYMBOL == "@start@"
END_SYMBOL   == "@end@"

None    == << >>
Some(v) == << v >>

\* self._source_tokenizer.tokenize, self._target_tokenizer.tokenize and
\* self._bidaf_tokenizer.tokenize
Tokenize(text) == [i \in 1..Len(text) |-> Token(text[i])]

\* tokens.insert(0, Token(START_SYMBOL)); tokens.append(Token(END_SYMBOL))
Wrap(toks) == << Token(START_SYMBOL) >> \o toks \o << Token(END_SYMBOL) >>

\* Mutant of InnerTokens: the slice [1:], which keeps the END sentinel.
InnerTokensKeepEnd(toks) == SubSeq(toks, 2, Len(toks))

\* tokenized_source[1:-1]
InnerTokens(toks) == SubSeq(toks, 2, Len(toks) - 1)

\* Mutant of SplitPoint: the split is one position too far.
SplitPointOffByOne(tokenized_source) == Len(tokenized_source) - 1

\* len(tokenized_source)-2, where the list of joint ids is split
SplitPoint(tokenized_source) == Len(tokenized_source) - 2

\* The list handed to _tokens_to_ids in training mode (lines 269-270)
JointTokens(tokenized_source, tokenized_target) ==
    InnerTokens(tokenized_source) \o tokenized_target

\* Mutant of LabelOf: the membership test ignores the letter case.
LabelOfIgnoreCase(ans) ==
    IF [i \in 1..Len(ans) |-> Lower(ans[i])]
           \notin { << "yes" >>, << "no" >>, << "irrelevant" >> }
    THEN << "More" >> ELSE ans

\* 'More' if answer not in ['Yes', 'No', 'Irrelevant'] else answer
LabelOf(ans) ==
    IF ans \notin { << "Yes" >>, << "No" >>, << "Irrelevant" >> }
    THEN << "More" >> ELSE ans

\* source_string: ' @@RS@@ ' + rule_text + ' @@RE@@ ' and every follow-up
\* question of the history followed by ' '.
SourceString(rule_text, history) ==
    << "@@RS@@" >> \o rule_text \o << "@@RE@@" >>
        \o Concat([i \in 1..Len(history) |-> history[i].follow_up_question])

\* question_text of the BiDAF view
QuestionText(question, scenario, history) ==
    << "@@QS@@" >> \o question \o << "@@SS@@" >> \o scenario \o << "@@HS@@" >>
        \o Concat([i \in 1..Len(history) |->
                     << "@@QS@@" >> \o history[i].follow_up_question
                                    \o history[i].follow_up_answer])
        \o << "@@HE@@" >>

TextField(toks, indexers) == [tokens |-> toks, token_indexers |-> indexers]

\* text_to_instance: the fields of the Instance it returns, and the list it
\* passed to _tokens_to_ids.
text_to_instance(rule_text, question, scenario, history, ans) ==
    LET tokenized_source == Wrap(Tokenize(SourceString(rule_text, history)))
        base ==
            [source_tokens    |-> TextField(tokenized_source, "source"),
             source_to_target |-> [source_tokens |-> InnerTokens(tokenized_source),
                                   target_namespace |-> "target_namespace"],
             passage          |-> TextField(Tokenize(rule_text), "bidaf"),
             question         |-> TextField(Tokenize(QuestionText(question, scenario,
                                                                  history)), "bidaf")]
        meta_base ==
            [source_tokens |-> [i \in 1..Len(InnerTokens(tokenized_source)) |->
                                  InnerTokens(tokenized_source)[i].text],
             rule_text |-> rule_text, question |-> question,
             scenario |-> scenario, history |-> history]
    IN  IF ans # None
        THEN LET target_string    == ans[1]
                 tokenized_target == Wrap(Tokenize(target_string))
                 arg              == JointTokens(tokenized_source, tokenized_target)
                 joint            == tokens_to_ids(arg)
                 meta == ("target_tokens" :>
                            [i \in 1..Len(InnerTokens(tokenized_target)) |->
                               InnerTokens(tokenized_target)[i].text]) @@ meta_base
             IN  [fields_dict |->
                      ("target_tokens" :> TextField(tokenized_target, "target"))
                   @@ ("source_token_ids" :>
                          SliceTo(joint, SplitPoint(tokenized_source)))
                   @@ ("target_token_ids" :>
                          SliceFrom(joint, SplitPoint(tokenized_source)))
                   @@ ("label" :> LabelOf(target_string))
                   @@ ("metadata" :> meta)
                   @@ base,
                  ids_arg |-> arg]
        ELSE LET arg == InnerTokens(tokenized_source)
             IN  [fields_dict |->
                      ("source_token_ids" :> tokens_to_ids(arg))
                   @@ ("metadata" :> meta_base)
                   @@ base,
                  ids_arg |-> arg]

(***************************************************************************)
(* SpecInst: one call of text_to_instance on each argument tuple.          *)
(***************************************************************************)
SourceWords == { "a", "A", "b" }
TargetWords == { "Yes", "No", "Irrelevant", "yes", "a", "B" }

WordSeqs(words, n) == UNION { [1..k -> words] : k \in 0..n }

Histories ==
    { << >>,
      << [follow_up_question |-> << "B" >>, follow_up_answer |-> << "Yes" >>] >> }

InstanceArgs ==
    [rule_text : WordSeqs(SourceWords, MaxSource),
     question  : { << "q" >> },
     scenario  : { << "s" >> },
     history   : Histories,
     answer    : { None } \cup { Some(w) : w \in WordSeqs(TargetWords, MaxTarget) }]

NoArgs == [rule_text |-> << >>, question |-> << >>, scenario |-> << >>,
           history |-> << >>, answer |-> None]

InstIdle == ti_args = NoArgs /\ ti_pc = "idle" /\ fields_dict = << >> /\ ids_arg = << >>

TextToInstance ==
    /\ ti_pc = "call"
    /\ LET res == text_to_instance(ti_args.rule_text, ti_args.question,
                                   ti_args.scenario, ti_args.history, ti_args.answer)
       IN  /\ fields_dict' = res.fields_dict
           /\ ids_arg' = res.ids_arg
    /\ ti_pc' = "done"
    /\ UNCHANGED << ti_args, ruleVars, tokVars, readVars >>

(***************************************************************************)
(* _read.  A record of the dataset is a function from its keys to their    *)
(* values.  The locals `answer` and `evidence` are << >> while unbound and *)
(* << v >> once assigned; they live for the whole call of _read.           *)
(***************************************************************************)
RequiredKeys == { "utterance_id", "tree_id", "source_url", "snippet",
                  "question", "scenario", "history" }

Unbound == << >>

Without(rec, key) == [k \in (DOMAIN rec) \ { key } |-> rec[k]]

FullRecord(snippet, ans) ==
    [utterance_id |-> << "u" >>, tree_id |-> << "t" >>, source_url |-> << "url" >>,
     snippet |-> snippet, question |-> << "q" >>, scenario |-> << "s" >>,
     history |-> << >>, answer |-> ans, evidence |-> << "ev" >>]

Snippets == { << "a" >>, << "b" >> }
Answers  == { << "Yes" >>, << "a" >> }

Records ==
    UNION { { FullRecord(sn, ans),
              Without(FullRecord(sn, ans), "evidence"),
              Without(FullRecord(sn, ans), "answer"),
              Without(Without(FullRecord(sn, ans), "answer"), "evidence") }
            : sn \in Snippets, ans \in Answers }
      \cup { Without(FullRecord(<< "a" >>, << "Yes" >>), "history") }

Datasets == UNION { [1..n -> Records] : n \in 0..MaxRecords }

ReadIdle ==
    /\ dataset = << >>
    /\ read_pc = "idle"
    /\ idx = 0
    /\ answer = Unbound
    /\ evidence = Unbound
    /\ yielded = << >>

\* dataset = json.load(dataset_file)
ReadOpen ==
    /\ read_pc = "open"
    /\ \E d \in Datasets : dataset' = d
    /\ read_pc' = "loop"
    /\ UNCHANGED << idx, answer, evidence, yielded, ruleVars, tokVars, instVars >>

\* One iteration of `for utterance in dataset` (lines 135-154).
ReadRecord ==
    /\ read_pc = "loop"
    /\ idx < Len(dataset)
    /\ LET utterance == dataset[idx + 1]
           answer1   == IF "answer" \in DOMAIN utterance
                        THEN Some(utterance["answer"]) ELSE answer
           evidence1 == IF "evidence" \in DOMAIN utterance
                        THEN Some(utterance["evidence"]) ELSE evidence
       IN  IF ~(RequiredKeys \subseteq DOMAIN utterance)
           THEN \* utterance[key] raises KeyError
                /\ read_pc' = "KeyError"
                /\ UNCHANGED << idx, answer, evidence, yielded >>
           ELSE IF answer1 = Unbound \/ evidence1 = Unbound
           THEN \* reading the unassigned local raises UnboundLocalError
                /\ read_pc' = "UnboundLocalError"
                /\ answer' = answer1
                /\ evidence' = evidence1
                /\ UNCHANGED << idx, yielded >>
           ELSE /\ answer' = answer1
                /\ evidence' = evidence1
                /\ yielded' = Append(yielded,
                       text_to_instance(utterance["snippet"], utterance["question"],
                                        utterance["scenario"], utterance["history"],
                                        answer1).fields_dict)
                /\ idx' = idx + 1
                /\ read_pc' = "loop"
    /\ UNCHANGED << dataset, ruleVars, tokVars, instVars >>

\* The loop is exhausted and the generator returns.
ReadFinish ==
    /\ read_pc = "loop"
    /\ idx = Len(dataset)
    /\ read_pc' = "done"
    /\ UNCHANGED << dataset, idx, answer, evidence, yielded, ruleVars, tokVars, instVars >>

(***************************************************************************)
(* The specifications.                                                     *)
(***************************************************************************)
InitRule ==
    /\ rule \in RuleInputs
    /\ rule_pc = "call"
    /\ rule_out = << >>
    /\ mr = NoLocals
    /\ TokIdle /\ InstIdle /\ ReadIdle

SpecRule == InitRule /\ [][ModifyRule]_vars

InitTok ==
    /\ tokens \in TokenInputs
    /\ tok_pc = "call"
    /\ out = << >>
    /\ RuleIdle /\ InstIdle /\ ReadIdle

SpecTok == InitTok /\ [][TokensToIds]_vars

InitInst ==
    /\ ti_args \in InstanceArgs
    /\ ti_pc = "call"
    /\ fields_dict = << >>
    /\ ids_arg = << >>
    /\ RuleIdle /\ TokIdle /\ ReadIdle

SpecInst == InitInst /\ [][TextToInstance]_vars

InitRead ==
    /\ dataset = << >>
    /\ read_pc = "open"
    /\ idx = 0
    /\ answer = Unbound
    /\ evidence = Unbound
    /\ yielded = << >>
    /\ RuleIdle /\ TokIdle /\ InstIdle

NextRead == ReadOpen \/ ReadRecord \/ ReadFinish

SpecRead == InitRead /\ [][NextRead]_vars

\* Any one of the four operations.
Init == InitRule \/ InitTok \/ InitInst \/ InitRead

Next == ModifyRule \/ TokensToIds \/ TextToInstance \/ NextRead

Spec == Init /\ [][Next]_vars

(***************************************************************************)
(* Properties of _tokens_to_ids (SpecTok).                                 *)
(***************************************************************************)
LowerAt(toks, i) == Lower(toks[i].text)

\* C1: _tokens_to_ids returns one id per token; two positions have the same
\* id exactly when their lowercased texts are equal; the first occurrence
\* of a lowercase form gets the number of distinct lowercase forms seen
\* before it, so ids start at 0 and follow first-seen order.
C1_AlignmentIds ==
    tok_pc = "done" =>
        /\ Len(out) = Len(tokens)
        /\ \A i, j \in 1..Len(tokens) :
              (out[i] = out[j]) <=> (LowerAt(tokens, i) = LowerAt(tokens, j))
        /\ \A i \in 1..Len(tokens) :
              (\A j \in 1..(i - 1) : LowerAt(tokens, j) # LowerAt(tokens, i))
                  => out[i] = Cardinality({ LowerAt(tokens, j) : j \in 1..(i - 1) })

\* A call whose tokens hold two spellings of one lowercase form and a second
\* lowercase form.
C1_Witness ==
    /\ tok_pc = "done"
    /\ \E i, j, k \in 1..Len(tokens) :
          /\ i < j
          /\ tokens[i].text # tokens[j].text
          /\ out[i] = out[j]
          /\ out[k] = 1

(***************************************************************************)
(* Properties of text_to_instance (SpecInst).                              *)
(***************************************************************************)
Supplied == ti_args.answer # None

\* C4: the label field is present exactly when an answer is supplied; it is
\* the answer itself when the answer is exactly Yes, No or Irrelevant, and
\* More for every other answer; without an answer there is no label, no
\* target_tokens and no target_token_ids field.
C4_Label ==
    ti_pc = "done" =>
        /\ ("label" \in DOMAIN fields_dict) <=> Supplied
        /\ Supplied =>
              fields_dict["label"] =
                  IF \/ ti_args.answer[1] = << "Yes" >>
                     \/ ti_args.answer[1] = << "No" >>
                     \/ ti_args.answer[1] = << "Irrelevant" >>
                  THEN ti_args.answer[1] ELSE << "More" >>
        /\ ~Supplied =>
              { "label", "target_tokens", "target_token_ids" }
                  \cap DOMAIN fields_dict = {}

\* A call with the answer yes, which differs from Yes only in case.
C4_Witness ==
    /\ ti_pc = "done"
    /\ ti_args.answer = Some(<< "yes" >>)
    /\ fields_dict["label"] = << "More" >>

IsSentinel(token) == token.text \in { START_SYMBOL, END_SYMBOL }

\* C5 as stated: no START or END sentinel, of the source or of the target,
\* is in the list passed to _tokens_to_ids.
C5_NoSentinelAligned ==
    ti_pc = "done" => \A i \in 1..Len(ids_arg) : ~IsSentinel(ids_arg[i])

\* C5 as amended: the list passed to _tokens_to_ids starts with the source
\* tokens without their first and last element, the two source sentinels;
\* in inference mode it is nothing more, and in training mode it goes on with
\* the whole wrapped target, so the START and END sentinels of the target are
\* in it and get an entry of target_token_ids.
C5_SourceSentinelsExcluded ==
    ti_pc = "done" =>
        LET src == fields_dict["source_tokens"].tokens
            n   == Len(src) - 2
        IN  /\ src[1] = Token(START_SYMBOL)
            /\ src[Len(src)] = Token(END_SYMBOL)
            /\ SubSeq(ids_arg, 1, n) = SubSeq(src, 2, Len(src) - 1)
            /\ \A i \in 1..n : ~IsSentinel(ids_arg[i])
            /\ ~Supplied => Len(ids_arg) = n
            /\ Supplied =>
                  LET tgt == fields_dict["target_tokens"].tokens
                  IN  /\ SubSeq(ids_arg, n + 1, Len(ids_arg)) = tgt
                      /\ ids_arg[n + 1] = Token(START_SYMBOL)
                      /\ ids_arg[Len(ids_arg)] = Token(END_SYMBOL)
                      /\ Len(tgt) = Len(ti_args.answer[1]) + 2
                      /\ Len(fields_dict["target_token_ids"]) = Len(tgt)

\* A training-mode call: the target sentinels got alignment ids.
C5_Witness ==
    /\ ti_pc = "done"
    /\ Supplied
    /\ Len(ti_args.answer[1]) = MaxTarget
    /\ Len(ti_args.rule_text) > 0
    /\ IsSentinel(ids_arg[Len(ids_arg)])
    /\ Len(fields_dict["target_token_ids"]) = MaxTarget + 2

\* C9: in training mode the source_token_ids equal those of the same call
\* without an answer; target_token_ids has one entry per target token and
\* sentinel; a target position has the id of a source position exactly when
\* their lowercased texts are equal, so a target token that matches no
\* source token has an id no source token has.
C9_SourceIdsIgnoreAnswer ==
    (ti_pc = "done" /\ Supplied) =>
        LET src  == SubSeq(fields_dict["source_tokens"].tokens, 2,
                           Len(fields_dict["source_tokens"].tokens) - 1)
            tgt  == fields_dict["target_tokens"].tokens
            sids == fields_dict["source_token_ids"]
            tids == fields_dict["target_token_ids"]
        IN  /\ sids = text_to_instance(ti_args.rule_text, ti_args.question,
                          ti_args.scenario, ti_args.history,
                          None).fields_dict["source_token_ids"]
            /\ Len(sids) = Len(src)
            /\ Len(tids) = Len(ti_args.answer[1]) + 2
            /\ Len(tids) = Len(tgt)
            /\ \A p \in 1..Len(tids) : \A s \in 1..Len(sids) :
                  (tids[p] = sids[s]) <=> (LowerAt(tgt, p) = LowerAt(src, s))

\* A training-mode call where a target token matches a source token of
\* another spelling and another target token matches no source token.
C9_Witness ==
    /\ ti_pc = "done"
    /\ Supplied
    /\ LET src  == SubSeq(fields_dict["source_tokens"].tokens, 2,
                          Len(fields_dict["source_tokens"].tokens) - 1)
           tgt  == fields_dict["target_tokens"].tokens
           sids == fields_dict["source_token_ids"]
           tids == fields_dict["target_token_ids"]
       IN  /\ \E p \in 2..(Len(tids) - 1) : \E s \in 1..Len(sids) :
                 tids[p] = sids[s] /\ tgt[p].text # src[s].text
           /\ \E p \in 2..(Len(tids) - 1) : \A s \in 1..Len(sids) :
                 tids[p] # sids[s]

(***************************************************************************)
(* Properties of modify_rule (SpecRule).                                   *)
(***************************************************************************)
Handled == rule_pc = "done" /\ mr.match.found

\* The positions of a period in the label text, group 2 of the match.
Periods == { i \in 1..Len(mr.match.group2) : mr.match.group2[i] = "." }

LastPeriod == CHOOSE i \in Periods : \A j \in Periods : j <= i

\* The five exclusion markers the specification lists.
ExclusionMarkers ==
    { << "b", "o", "t", "h" >>,
      << "f", "o", "l", "l", "o", "w", "i", "n", "g" >>,
      << "e", "i", "t", "h", "e", "r" >>,
      << "i", "n", "c", "l", "u", "d", "i", "n", "g" >>,
      << "i", "n", "c", "l", "u", "d", "e" >> }

\* C6: when the pattern is found and the distributed condition clause
\* contains one of the markers both, following, either, including, include,
\* modify_rule returns its input unchanged.
C6_SafetyFallback ==
    (Handled /\ \E w \in ExclusionMarkers : StrIn(w, mr.condition))
        => rule_out = rule

\* The bullet items of the matched block: its lines that start with the
\* bullet marker.
IsBulletLine(line) == Len(line) >= 2 /\ line[1] = "*" /\ line[2] = " "

BulletItems == SelectSeq(StrSplit(mr.match.group3, NL), IsBulletLine)

\* C7: a rewritten text is the pretext, a newline, and then exactly one line
\* per bullet item, in order, made of the condition clause, a space, the
\* item without its marker, and a period.
C7_OneLinePerBullet ==
    (rule_pc = "done" /\ mr.rewritten) =>
        rule_out = mr.pretext \o << NL >>
            \o Concat([i \in 1..Len(BulletItems) |->
                          mr.condition \o << " " >>
                              \o SubSeq(BulletItems[i], 3, Len(BulletItems[i]))
                              \o << ".", NL >>])

\* C8 as stated: with a period in the label text, the condition clause is
\* the text up to and including the last period and the rest goes to the
\* pretext; without a period the condition clause is empty and the whole
\* label text goes to the pretext.
C8_ConditionIsTextUpToLastPeriod ==
    Handled =>
        IF Periods # {}
        THEN /\ mr.condition = SubSeq(mr.match.group2, 1, LastPeriod)
             /\ mr.pretext = mr.match.group1 \o << NL >>
                    \o SubSeq(mr.match.group2, LastPeriod + 1, Len(mr.match.group2))
        ELSE /\ mr.condition = << >>
             /\ mr.pretext = mr.match.group1 \o << NL >> \o mr.match.group2

\* C8 as amended: with a period in the label text, the text up to and
\* including the last period is added to the pretext, and the condition
\* clause is the text that starts two characters after that period (the
\* character right after the period is dropped); without a period nothing
\* is added to the pretext and the condition clause is the whole label text.
\* Every rewritten line starts with the condition clause.
C8_ConditionIsLastSentence ==
    Handled =>
        /\ IF Periods # {}
           THEN /\ mr.pretext = mr.match.group1 \o << NL >>
                       \o SubSeq(mr.match.group2, 1, LastPeriod)
                /\ mr.condition = SubSeq(mr.match.group2, LastPeriod + 2,
                                         Len(mr.match.group2))
           ELSE /\ mr.pretext = mr.match.group1 \o << NL >>
                /\ mr.condition = mr.match.group2
        /\ mr.rewritten =>
              \A i \in 1..Len(mr.bullets_list) :
                  SubSeq(mr.bullets_list[i], 1, Len(mr.condition) + 1)
                      = mr.condition \o << " " >>

\* A rewritten rule whose label text has a first sentence and a clause
\* after it.
C8_Witness ==
    /\ Handled
    /\ mr.rewritten
    /\ Periods # {}
    /\ LastPeriod + 2 <= Len(mr.match.group2)
    /\ mr.condition # << >>

\* C10: a rewritten text still holds every line of the input before the
\* label line and the text after the matched region.
C10_NothingLost ==
    (rule_pc = "done" /\ mr.rewritten) =>
        /\ \A line \in { StrSplit(SubSeq(rule, 1, mr.match.label - 1), NL)[i] :
                           i \in 1..Len(StrSplit(SubSeq(rule, 1, mr.match.label - 1), NL)) } :
              StrIn(line, rule_out)
        /\ StrIn(SubSeq(rule, mr.match.end, Len(rule)), rule_out)

(***************************************************************************)
(* Properties of _read (SpecRead).                                         *)
(***************************************************************************)
Raised == read_pc \in { "KeyError", "UnboundLocalError" }

\* C2: the instance of a record depends on that record alone: two equal
\* records of one dataset yield equal instances, whatever precedes them.
C2_EqualRecordsEqualInstances ==
    \A i, j \in 1..Len(yielded) :
        dataset[i] = dataset[j] => yielded[i] = yielded[j]

\* C3: on a dataset whose records all have the seven required keys, with
\* answer and evidence absent from any of them, _read does not raise and
\* yields one instance per record, in input order.
C3_ReadCompletes ==
    (\A k \in 1..Len(dataset) : RequiredKeys \subseteq DOMAIN dataset[k]) =>
        /\ ~Raised
        /\ read_pc = "done" =>
              /\ Len(yielded) = Len(dataset)
              /\ \A k \in 1..Len(dataset) :
                    yielded[k]["metadata"].rule_text = dataset[k]["snippet"]

====
